---- MODULE Spec2Model ----
(***************************************************************************)
(* A model of pyosmo360 (src/src/pyosmo360/osmo360.py): the frame codec    *)
(* with its two table-driven checksums, the camera-status decoder, and     *)
(* the command channel / handshake / subscriber registry of class Osmo360. *)
(*                                                                         *)
(* Bytes are integers in 0..255 and byte strings are sequences of them     *)
(* (1-based here, 0-based in the source).  A 32-bit value is kept as the   *)
(* pair <<high 16 bits, low 16 bits>>, since the checker's integers are    *)
(* 32-bit signed.                                                          *)
(***************************************************************************)
EXTENDS Integers, Sequences, FiniteSets, TLC

VARIABLES
  \* ---- frame codec experiment (SpecCodec)
  cargs,      \* the arguments of build_dji_frame
  buf,        \* the byte buffer under test
  phase,      \* how buf was obtained
  tpos,       \* the position of the altered byte, 0 when none
  decoded,    \* whether parse_dji_frame has been applied to buf
  cresult,    \* what parse_dji_frame returned or raised
  \* ---- camera-status decoder experiment (SpecStatus)
  sdata,      \* the payload handed to CameraStatus.parseFromData
  sphase,     \* "off", "input" or "parsed"
  sresult,    \* what parseFromData produced or raised

  \* ---- class Osmo360 (Spec)
  connected,                \* client is set and client.is_connected
  notification_received,    \* the asyncio.Event of that name, set or not
  response_received,        \* the asyncio.Event of that name, set or not
  last_response_frame,
  last_notification_data,
  cameraStatus,
  cameraStatusCallbacks,
  device_id,
  \* ---- the caller
  op,         \* the API call in progress, or the last one when pc = "idle"
  pc,         \* where the caller is suspended; "idle" between calls
  sargs,      \* the arguments of the send_dji_command in progress
  cbarg,      \* the callback argument of the API call
  ret,        \* what the last API call returned
  \* ---- observations
  written,    \* the frames handed to write_gatt_char, in order
  invoked,    \* the callbacks the last run of the handler invoked, in order
  g_fresh,    \* a Response was delivered during the send_dji_command call
  g_gap,      \* "timeout" once a send_dji_command timed out, "late" once a
              \* Response arrived after that and before the next one
  g_stale,    \* the send_dji_command call began with g_gap = "late"
  g_att,      \* of the connect attempt: Len(written) and device_id when
              \* it began, the response it got, the notification its
              \* approval wait read
  g_in,       \* the buffer the handler dispatched in the last step, as an
              \* index of Inbound; 0 when the last step was the caller's
              \* (recorded by SpecDispatch only)
  g_mark,     \* Len(written) when the API call in progress began

  pc2,        \* where a second, overlapping send_dji_command is suspended
  wait2,      \* its wait_for_response argument
  ret2,       \* what it returned
  woke,       \* the callers whose wait on response_received has been woken
  script,     \* the buffers the camera has yet to send, in order
  scenario,   \* the buffers the camera sends in this run, in order
  g_conn      \* how the most recent connect had ended when a control
              \* command was called

codecVars == <<cargs, buf, phase, tpos, decoded, cresult>>

auxVars == <<pc2, wait2, ret2, woke, script, scenario, g_conn>>

protoVars == <<connected, notification_received, response_received,
               last_response_frame, last_notification_data, cameraStatus,
               cameraStatusCallbacks, device_id, op, pc, sargs, cbarg, ret,
               written, invoked, g_fresh, g_gap, g_stale, g_att, g_in,
               g_mark, auxVars>>

statusVars == <<sdata, sphase, sresult>>

vars == <<codecVars, statusVars, protoVars>>

-----------------------------------------------------------------------------
(* Bit operations on non-negative integers.                                *)

RECURSIVE XorBits(_, _, _)
XorBits(a, b, n) ==
  IF n = 0 THEN 0
  ELSE ((a + b) % 2) + 2 * XorBits(a \div 2, b \div 2, n - 1)

\* a ^ b for bytes, tabulated once
XorByte == [a \in 0..255 |-> [b \in 0..255 |-> XorBits(a, b, 8)]]

\* a ^ b for 16-bit operands
Xor16(a, b) ==
  XorByte[a \div 256][b \div 256] * 256 + XorByte[a % 256][b % 256]

\* a & 0x1F, a & 0x3FF, (a >> n) & 1 are written with % and \div below.

Min(a, b) == IF a <= b THEN a ELSE b

\* a slice bound as Python resolves it on a sequence of n items: a negative
\* bound counts from the end, and the result is clamped to 0..n
SliceIndex(i, n) ==
  IF i < 0 THEN (IF i + n < 0 THEN 0 ELSE i + n) ELSE Min(i, n)

\* Python's s[a:b] (0-based, end exclusive, clamped to the sequence)
Slice(s, a, b) ==
  LET lo == SliceIndex(a, Len(s))
      hi == SliceIndex(b, Len(s))
  IN  IF hi <= lo THEN << >> ELSE SubSeq(s, lo + 1, hi)

\* int.from_bytes(s, 'little') of at most two bytes
FromBytes16(s) ==
  (IF Len(s) >= 1 THEN s[1] ELSE 0) + 256 * (IF Len(s) >= 2 THEN s[2] ELSE 0)

\* int.from_bytes(s, 'little') of at most four bytes, as <<high, low>>
FromBytes32(s) == <<FromBytes16(Slice(s, 2, 4)), FromBytes16(Slice(s, 0, 2))>>

\* v.to_bytes(2, 'little')
ToBytes16(v) == <<v % 256, v \div 256>>

\* v.to_bytes(4, 'little') of v = <<high, low>>
ToBytes32(v) == ToBytes16(v[2]) \o ToBytes16(v[1])

-----------------------------------------------------------------------------
(* The checksum tables, copied from the source.                            *)

DJI_CRC16_TABLE ==
  <<
    0, 49345, 49537, 320, 49921, 960, 640, 49729,
    50689, 1728, 1920, 51009, 1280, 50625, 50305, 1088,
    52225, 3264, 3456, 52545, 3840, 53185, 52865, 3648,
    2560, 51905, 52097, 2880, 51457, 2496, 2176, 51265,
    55297, 6336, 6528, 55617, 6912, 56257, 55937, 6720,
    7680, 57025, 57217, 8000, 56577, 7616, 7296, 56385,
    5120, 54465, 54657, 5440, 55041, 6080, 5760, 54849,
    53761, 4800, 4992, 54081, 4352, 53697, 53377, 4160,
    61441, 12480, 12672, 61761, 13056, 62401, 62081, 12864,
    13824, 63169, 63361, 14144, 62721, 13760, 13440, 62529,
    15360, 64705, 64897, 15680, 65281, 16320, 16000, 65089,
    64001, 15040, 15232, 64321, 14592, 63937, 63617, 14400,
    10240, 59585, 59777, 10560, 60161, 11200, 10880, 59969,
    60929, 11968, 12160, 61249, 11520, 60865, 60545, 11328,
    58369, 9408, 9600, 58689, 9984, 59329, 59009, 9792,
    8704, 58049, 58241, 9024, 57601, 8640, 8320, 57409,
    40961, 24768, 24960, 41281, 25344, 41921, 41601, 25152,
    26112, 42689, 42881, 26432, 42241, 26048, 25728, 42049,
    27648, 44225, 44417, 27968, 44801, 28608, 28288, 44609,
    43521, 27328, 27520, 43841, 26880, 43457, 43137, 26688,
    30720, 47297, 47489, 31040, 47873, 31680, 31360, 47681,
    48641, 32448, 32640, 48961, 32000, 48577, 48257, 31808,
    46081, 29888, 30080, 46401, 30464, 47041, 46721, 30272,
    29184, 45761, 45953, 29504, 45313, 29120, 28800, 45121,
    20480, 37057, 37249, 20800, 37633, 21440, 21120, 37441,
    38401, 22208, 22400, 38721, 21760, 38337, 38017, 21568,
    39937, 23744, 23936, 40257, 24320, 40897, 40577, 24128,
    23040, 39617, 39809, 23360, 39169, 22976, 22656, 38977,
    34817, 18624, 18816, 35137, 19200, 35777, 35457, 19008,
    19968, 36545, 36737, 20288, 36097, 19904, 19584, 35905,
    17408, 33985, 34177, 17728, 34561, 18368, 18048, 34369,
    33281, 17088, 17280, 33601, 16640, 33217, 32897, 16448
  >>
\* each entry as <<high 16 bits, low 16 bits>>
DJI_CRC32_TABLE ==
  <<
    <<0, 0>>, <<30471, 12438>>, <<60942, 24876>>, <<39177, 20922>>,
    <<1901, 50201>>, <<28778, 62607>>, <<59747, 42293>>, <<40548, 38307>>,
    <<3803, 34866>>, <<31196, 47268>>, <<57557, 59678>>, <<38866, 55688>>,
    <<2486, 19499>>, <<32433, 31933>>, <<59320, 11527>>, <<37055, 7569>>,
    <<7607, 4196>>, <<27312, 8434>>, <<62393, 29000>>, <<33982, 16862>>,
    <<6874, 54397>>, <<28125, 58603>>, <<62676, 46417>>, <<33747, 34247>>,
    <<4972, 38998>>, <<25707, 43200>>, <<64866, 63866>>, <<35429, 51692>>,
    <<5121, 23631>>, <<25350, 27865>>, <<64015, 15715>>, <<36104, 3573>>,
    <<15214, 8392>>, <<19561, 4190>>, <<54624, 16868>>, <<41575, 29042>>,
    <<15363, 58577>>, <<19204, 54343>>, <<53773, 34301>>, <<42250, 46443>>,
    <<13749, 43258>>, <<17074, 39020>>, <<56251, 51670>>, <<44220, 63808>>,
    <<13016, 27875>>, <<17887, 23669>>, <<56534, 3535>>, <<43985, 15705>>,
    <<9945, 12460>>, <<20958, 58>>, <<51415, 20864>>, <<49104, 24854>>,
    <<8628, 62645>>, <<22195, 50211>>, <<53178, 38297>>, <<47293, 42255>>,
    <<10242, 47262>>, <<24325, 34824>>, <<50700, 55730>>, <<45323, 59684>>,
    <<12143, 31879>>, <<22632, 19473>>, <<49505, 7595>>, <<46694, 11581>>,
    <<30428, 16784>>, <<475, 28934>>, <<39122, 8380>>, <<61397, 4138>>,
    <<29105, 34185>>, <<1718, 46367>>, <<40895, 58533>>, <<59576, 54323>>,
    <<30727, 51618>>, <<3840, 63796>>, <<38409, 43150>>, <<57614, 38936>>,
    <<32618, 3515>>, <<2157, 15661>>, <<37220, 27799>>, <<58979, 23553>>,
    <<27499, 20980>>, <<7276, 24930>>, <<34149, 12504>>, <<62050, 78>>,
    <<27654, 38381>>, <<6913, 42363>>, <<33288, 62657>>, <<62735, 50263>>,
    <<26032, 55750>>, <<4791, 59728>>, <<35774, 47338>>, <<64697, 34940>>,
    <<25309, 7647>>, <<5594, 11593>>, <<36051, 31987>>, <<64468, 19557>>,
    <<19890, 24920>>, <<15029, 20942>>, <<41916, 116>>, <<54459, 12514>>,
    <<19167, 42305>>, <<15832, 38359>>, <<42193, 50285>>, <<54230, 62715>>,
    <<17257, 59754>>, <<13422, 55804>>, <<44391, 34886>>, <<55904, 47312>>,
    <<17412, 11635>>, <<13059, 7653>>, <<43530, 19551>>, <<56589, 31945>>,
    <<20485, 28988>>, <<9986, 16810>>, <<48651, 4112>>, <<51468, 8326>>,
    <<22376, 46373>>, <<8303, 34227>>, <<47462, 54281>>, <<52833, 58527>>,
    <<24286, 63758>>, <<10713, 51608>>, <<45264, 38946>>, <<51159, 43188>>,
    <<22963, 15639>>, <<11956, 3457>>, <<47037, 23611>>, <<49338, 27821>>,
    <<60856, 33568>>, <<39615, 46006>>, <<950, 57868>>, <<29873, 53914>>,
    <<60117, 18233>>, <<40402, 30639>>, <<1243, 9749>>, <<29660, 5763>>,
    <<58211, 2834>>, <<37988, 15236>>, <<3437, 27198>>, <<31338, 23208>>,
    <<58382, 53003>>, <<37641, 65437>>, <<2560, 44583>>, <<32007, 40625>>,
    <<61455, 37700>>, <<34568, 41938>>, <<7681, 62056>>, <<26886, 49918>>,
    <<63330, 22365>>, <<32869, 26571>>, <<6508, 13937>>, <<28267, 1767>>,
    <<65236, 7030>>, <<35283, 11232>>, <<4314, 31322>>, <<26589, 19148>>,
    <<63929, 57199>>, <<36542, 61433>>, <<6071, 48707>>, <<24752, 36565>>,
    <<54998, 41960>>, <<41425, 37758>>, <<14552, 49860>>, <<20447, 62034>>,
    <<53691, 26609>>, <<42684, 22375>>, <<16309, 1757>>, <<18610, 13899>>,
    <<55309, 11226>>, <<44810, 6988>>, <<13827, 19190>>, <<16644, 31328>>,
    <<57184, 61379>>, <<43111, 57173>>, <<12654, 36591>>, <<18025, 48761>>,
    <<52065, 45964>>, <<48230, 33562>>, <<9583, 53920>>, <<21096, 57910>>,
    <<52236, 30613>>, <<47883, 18179>>, <<8706, 5817>>, <<21765, 9775>>,
    <<50618, 15294>>, <<45757, 2856>>, <<11188, 23186>>, <<23731, 27140>>,
    <<49879, 65447>>, <<46544, 53041>>, <<11481, 40587>>, <<23518, 44573>>,
    <<39780, 49840>>, <<60515, 61990>>, <<30058, 41884>>, <<621, 37642>>,
    <<39945, 1705>>, <<60174, 13887>>, <<29191, 26501>>, <<1280, 22291>>,
    <<38335, 19074>>, <<58040, 31252>>, <<31665, 11182>>, <<3254, 6968>>,
    <<37586, 36507>>, <<58837, 48653>>, <<31964, 61367>>, <<3035, 57121>>,
    <<34515, 53972>>, <<61908, 57922>>, <<26845, 46072>>, <<8154, 33646>>,
    <<33214, 5837>>, <<63161, 9819>>, <<28592, 30689>>, <<6327, 18295>>,
    <<34824, 23270>>, <<65295, 27248>>, <<26118, 15306>>, <<4353, 2908>>,
    <<36709, 40703>>, <<63586, 44649>>, <<24939, 65491>>, <<5740, 53061>>,
    <<40970, 57976>>, <<55053, 53998>>, <<19972, 33620>>, <<14595, 46018>>,
    <<42855, 9825>>, <<53344, 5879>>, <<18793, 18253>>, <<15982, 30683>>,
    <<44753, 27210>>, <<55766, 23260>>, <<16607, 2918>>, <<14296, 15344>>,
    <<43452, 44627>>, <<57019, 40645>>, <<18354, 53119>>, <<12469, 65513>>,
    <<48573, 61980>>, <<51898, 49802>>, <<21427, 37680>>, <<9396, 41894>>,
    <<47824, 13829>>, <<52695, 1683>>, <<21726, 22313>>, <<9177, 26559>>,
    <<45926, 31278>>, <<50273, 19128>>, <<23912, 6914>>, <<10863, 11156>>,
    <<46091, 48695>>, <<49932, 36513>>, <<23045, 57115>>, <<11522, 61325>>
  >>

-----------------------------------------------------------------------------
(* Checksum engine: _ccrc16 and _ccrc32.                                   *)

Crc16Init == 15011            \* 0x3AA3
Crc32Init == <<0, 15011>>     \* 0x00003AA3

\* one iteration of the loop of _ccrc16
Crc16Step(crc, b) ==
  LET tbl_idx == Xor16(crc, b) % 256
  IN  Xor16(DJI_CRC16_TABLE[tbl_idx + 1], crc \div 256) % 65536

\* one iteration of the loop of _ccrc32, on crc = <<high, low>>
Crc32Step(crc, b) ==
  LET tbl_idx == Xor16(crc[2], b) % 256
      entry   == DJI_CRC32_TABLE[tbl_idx + 1]
      shifted == <<crc[1] \div 256, (crc[1] % 256) * 256 + crc[2] \div 256>>
  IN  <<Xor16(entry[1], shifted[1]), Xor16(entry[2], shifted[2])>>

\* the loop "for b in data", over data[lo..hi] in order (split in halves,
\* the left half computed before the right one starts, to keep the
\* evaluation shallow; a checksum is never negative)
RECURSIVE Crc16Loop(_, _, _, _)
Crc16Loop(crc, data, lo, hi) ==
  IF lo > hi THEN crc
  ELSE IF lo = hi THEN Crc16Step(crc, data[lo])
  ELSE LET mid  == (lo + hi) \div 2
           left == Crc16Loop(crc, data, lo, mid)
       IN  IF left >= 0 THEN Crc16Loop(left, data, mid + 1, hi) ELSE left

RECURSIVE Crc32Loop(_, _, _, _)
Crc32Loop(crc, data, lo, hi) ==
  IF lo > hi THEN crc
  ELSE IF lo = hi THEN Crc32Step(crc, data[lo])
  ELSE LET mid  == (lo + hi) \div 2
           left == Crc32Loop(crc, data, lo, mid)
       IN  IF left[1] >= 0 THEN Crc32Loop(left, data, mid + 1, hi) ELSE left

ccrc16(data) == Crc16Loop(Crc16Init, data, 1, Len(data))

ccrc32(data) == Crc32Loop(Crc32Init, data, 1, Len(data))

-----------------------------------------------------------------------------
(* Frame codec: build_dji_frame and parse_dji_frame.                       *)

SOF == 170                    \* 0xAA

\* a faulty variant: the frame type put in bit 6
CmdTypeByteBit6(is_response, ack_type) ==
  (ack_type % 32) + (IF is_response THEN 64 ELSE 0)

\* the CmdType byte: ack type in bits 4:0, frame type in bit 5
CmdTypeByte(is_response, ack_type) ==
  (ack_type % 32) + (IF is_response THEN 32 ELSE 0)

\* the Ver/Length field: version 0, length in the low 10 bits
VerLength(length) == length % 1024

build_dji_frame(cmd_set, cmd_id, payload, is_response, ack_type) ==
  LET data             == <<cmd_set, cmd_id>> \o payload
      cmd_type_byte    == CmdTypeByte(is_response, ack_type)
      length           == 12 + Len(data) + 4
      ver_length_bytes == ToBytes16(VerLength(length))
      frame_header     == <<SOF, ver_length_bytes[1], ver_length_bytes[2],
                            cmd_type_byte, 0, 0, 0, 0, 1, 0>>
      header_crc       == frame_header \o ToBytes16(ccrc16(frame_header))
      full_frame       == header_crc \o data
  IN  full_frame \o ToBytes32(ccrc32(full_frame))

\* what parse_dji_frame raises
ErrTooShort == "Frame data is too short"
ErrSOF      == "Invalid frame header (SOF)"
ErrLength   == "Frame length mismatch"
ErrCRC16    == "CRC16 check failed"
ErrCRC32    == "CRC32 check failed"
ErrData     == "DATA section too short"

Raise(e) == [ok |-> FALSE, error |-> e]
Return(f) == [ok |-> TRUE, frame |-> f]

\* a faulty variant: only a buffer shorter than declared is refused
LengthMismatchShortOnly(data, length) == Len(data) < length

\* the comparison "len(data) != length"
LengthMismatch(data, length) == Len(data) # length

\* the comparison "crc16_calculated != crc16_received"
\* faulty variant: the header checksum is not compared
Crc16MismatchIgnored(calculated, received) == FALSE

Crc16Mismatch(calculated, received) == calculated # received

\* a faulty variant: the CRC32 is not compared
Crc32MismatchIgnored(calculated, received) == FALSE

\* the comparison "crc32_calculated != crc32_received"
Crc32Mismatch(calculated, received) == calculated # received

parse_dji_frame(data) ==
  IF Len(data) < 16 THEN Raise(ErrTooShort)
  ELSE IF data[1] # SOF THEN Raise(ErrSOF)
  ELSE
    LET ver_length == FromBytes16(Slice(data, 1, 3))
        version    == (ver_length \div 1024) % 64
        length     == ver_length % 1024
    IN
    IF LengthMismatch(data, length) THEN Raise(ErrLength)
    ELSE
      LET cmd_type       == data[4]
          frame_type     == (cmd_type \div 32) % 2
          ack_type       == cmd_type % 32
          enc            == data[5]
          seq            == FromBytes16(Slice(data, 8, 10))
          crc16_received == FromBytes16(Slice(data, 10, 12))
      IN
      IF Crc16Mismatch(ccrc16(Slice(data, 0, 10)), crc16_received)
      THEN Raise(ErrCRC16)
      ELSE
        LET data_end       == length - 4
            data_payload   == Slice(data, 12, data_end)
            crc32_received == FromBytes32(Slice(data, data_end, length))
        IN
        IF Crc32Mismatch(ccrc32(Slice(data, 0, data_end)), crc32_received)
        THEN Raise(ErrCRC32)
        ELSE IF Len(data_payload) < 2 THEN Raise(ErrData)
        ELSE Return([version    |-> version,
                     length     |-> length,
                     frame_type |-> frame_type,
                     ack_type   |-> ack_type,
                     enc        |-> enc,
                     seq        |-> seq,
                     crc16      |-> crc16_received,
                     crc32      |-> crc32_received,
                     cmd_set    |-> data_payload[1],
                     cmd_id     |-> data_payload[2],
                     data       |-> Slice(data_payload, 2, Len(data_payload))])

-----------------------------------------------------------------------------
(* The enumerations of the camera status, each member as <<name, value>>,  *)
(* and CameraStatus.parseFromData.                                         *)

CameraMode ==
  {<<"PANO_VIDEO", 56>>, <<"HYPERLAPSE", 58>>, <<"SELFIE", 60>>,
   <<"PANO_PHOTO", 63>>, <<"BOOST_VIDEO", 65>>, <<"VORTEX", 67>>,
   <<"PANO_SUPER_NIGHT", 68>>, <<"SINGLE_LENS_SUPER_NIGHT", 74>>,
   <<"UNKNOWN", -1>>}

ViewStatus ==
  {<<"SCREEN_OFF", 0>>, <<"LIVE_STREAMING", 1>>, <<"PLAYBACK", 2>>,
   <<"PHOTO_OR_RECORDING", 3>>, <<"PRE_RECORDING", 5>>, <<"UNKNOWN", -1>>}

VideoResolution ==
  {<<"RES_1080P", 10>>, <<"RES_4K", 16>>, <<"RES_27K", 45>>,
   <<"RES_1080P_9_16", 66>>, <<"RES_27K_4_3", 95>>, <<"RES_4K_4_3", 103>>,
   <<"RES_4K_9_16", 109>>, <<"RES_UW_30MP", 4>>, <<"RES_W_20MP", 3>>,
   <<"RES_STD_12MP", 2>>, <<"UNKNOWN", -1>>}

FPSIdx ==
  {<<"FPS_24", 1>>, <<"FPS_25", 2>>, <<"FPS_30", 3>>, <<"FPS_48", 4>>,
   <<"FPS_50", 5>>, <<"FPS_60", 6>>, <<"FPS_100", 10>>, <<"FPS_120", 7>>,
   <<"FPS_200", 19>>, <<"FPS_240", 8>>, <<"UNKNOWN", -1>>}

EISMode ==
  {<<"OFF", 0>>, <<"RS", 1>>, <<"HS", 2>>, <<"RS_P", 3>>, <<"HB", 4>>,
   <<"UNKNOWN", -1>>}

PhotoRatio == {<<"RATIO_4_3", 0>>, <<"RATIO_16_9", 1>>, <<"UNKNOWN", -1>>}

UserMode ==
  {<<"GENERAL", 0>>, <<"CUSTOM_1", 1>>, <<"CUSTOM_2", 2>>, <<"CUSTOM_3", 3>>,
   <<"CUSTOM_4", 4>>, <<"CUSTOM_5", 5>>, <<"UNKNOWN", -1>>}

PowerMode == {<<"NORMAL", 0>>, <<"SLEEP", 3>>, <<"UNKNOWN", -1>>}

TempOver ==
  {<<"NORMAL", 0>>, <<"WARNING", 1>>, <<"TOO_HIGH", 2>>, <<"OVERHEAT", 3>>,
   <<"UNKNOWN", -1>>}

\* a faulty variant: a class without _missing_, whose call raises
MissingRaises(cls, value) == "ValueError"

\* cls._missing_(value): what the class answers for a value no member has
Missing(cls, value) == "UNKNOWN"

\* cls(value): the member of that value, by name; _missing_ otherwise
EnumCall(cls, value) ==
  IF \E m \in cls : m[2] = value
  THEN (CHOOSE m \in cls : m[2] = value)[1]
  ELSE Missing(cls, value)

\* struct.unpack('<I', s)[0], as <<high, low>>
Unpack32(s) == FromBytes32(s)

\* the payload bytes parseFromData reads: indices 0..37
StatusLen == 38

\* a faulty variant: a short payload is not refused
parseFromDataLenient(data) ==
  [ok |-> TRUE,
   status |-> [camera_bat_percentage |-> IF Len(data) >= StatusLen
                                         THEN data[StatusLen] ELSE -1,
               data |-> data]]

parseFromData(data) ==
  IF Len(data) < StatusLen THEN Raise("index out of range")
  ELSE [ok |-> TRUE,
        status |->
          [camera_mode           |-> EnumCall(CameraMode, data[1]),
           view_status           |-> EnumCall(ViewStatus, data[2]),
           video_resolution      |-> EnumCall(VideoResolution, data[3]),
           fps_idx               |-> EnumCall(FPSIdx, data[4]),
           eis_mode              |-> EnumCall(EISMode, data[5]),
           record_time           |-> FromBytes16(Slice(data, 5, 7)),
           photo_ratio           |-> EnumCall(PhotoRatio, data[9]),
           real_time_countdown   |-> FromBytes16(Slice(data, 9, 11)),
           timelaps_interval     |-> FromBytes16(Slice(data, 11, 13)),
           timelaps_duration     |-> FromBytes16(Slice(data, 13, 15)),
           remain_capacity       |-> Unpack32(Slice(data, 15, 19)),
           remain_photo_num      |-> Unpack32(Slice(data, 19, 23)),
           remain_time           |-> Unpack32(Slice(data, 23, 27)),
           user_mode             |-> EnumCall(UserMode, data[29]),
           power_mode            |-> EnumCall(PowerMode, data[30]),
           temp_over             |-> EnumCall(TempOver, data[31]),
           photo_countdown_ms    |-> Unpack32(Slice(data, 31, 35)),
           loop_record_sends     |-> FromBytes16(Slice(data, 35, 37)),
           camera_bat_percentage |-> data[38],
           data                  |-> data]]

-----------------------------------------------------------------------------
(* SpecCodec: build_dji_frame and parse_dji_frame applied to bounded       *)
(* inputs, and to frames altered on the way.                               *)

MaxPayloadLen == 2            \* longest enumerated payload
MaxTamperPos  == 24           \* leading bytes of a frame that get altered

PayloadBytes  == {0, 255}
CmdSetSamples == {29, 255}
CmdIdSamples  == {4, 255}
AckSamples    == {0, 1, 31}
TamperMasks   == {1, 2, 4, 8, 16, 32, 64, 128, 255}

BoundedSeq(S, n) == UNION {[1..k -> S] : k \in 0..n}

ZeroBytes(n) == [i \in 1..n |-> 0]

\* the example of the documentation, and the payloads around the largest
\* frame the 10-bit length field can declare (1023 = 12 + 2 + 1005 + 4)
ExamplePayload == <<1, 2, 3, 4, 5>>
LongPayloads   == {ZeroBytes(1023 - 18), ZeroBytes(1024 - 18)}

CodecInputs ==
  [cmd_set : CmdSetSamples, cmd_id : CmdIdSamples,
   payload : BoundedSeq(PayloadBytes, MaxPayloadLen),
   is_response : BOOLEAN, ack_type : AckSamples]
  \cup
  [cmd_set : {29}, cmd_id : {4},
   payload : {ExamplePayload} \cup LongPayloads,
   is_response : {FALSE}, ack_type : {1}]

NotDecoded == Raise("not decoded")

CodecInit ==
  /\ cargs \in CodecInputs
  /\ buf = << >>
  /\ phase = "args"
  /\ tpos = 0
  /\ decoded = FALSE
  /\ cresult = NotDecoded

\* the low 10 bits of the Ver/Length field of a buffer
DeclaredLength(b) == FromBytes16(Slice(b, 1, 3)) % 1024

Encode ==
  /\ phase = "args"
  /\ buf' = build_dji_frame(cargs.cmd_set, cargs.cmd_id, cargs.payload,
                            cargs.is_response, cargs.ack_type)
  /\ phase' = "built"
  /\ UNCHANGED <<cargs, tpos, decoded, cresult, statusVars, protoVars>>

\* the bytes that get altered: the leading ones and the trailing CRC32
TamperPositions ==
  {pos \in 1..Len(buf) : pos <= MaxTamperPos \/ pos > Len(buf) - 4}

\* one byte of the frame changed to another value on the way
Tamper(pos, mask) ==
  /\ phase = "built" /\ ~decoded
  /\ pos \in TamperPositions
  /\ buf' = [buf EXCEPT ![pos] = XorByte[@][mask]]
  /\ phase' = "tampered"
  /\ tpos' = pos
  /\ UNCHANGED <<cargs, decoded, cresult, statusVars, protoVars>>

\* a byte added after the frame, or its last byte lost
Resize ==
  /\ phase = "built" /\ ~decoded
  /\ \/ \E b \in PayloadBytes : buf' = Append(buf, b)
     \/ buf' = SubSeq(buf, 1, Len(buf) - 1)
  /\ phase' = "resized"
  /\ UNCHANGED <<cargs, tpos, decoded, cresult, statusVars, protoVars>>

\* a frame whose sender declared another length, with both checksums
\* computed over the frame as sent
Redeclare(d) ==
  /\ phase = "built" /\ ~decoded
  /\ d \in 0..1023
  /\ d # DeclaredLength(buf)
  /\ LET vl     == ToBytes16(d)
         header == <<buf[1], vl[1], vl[2]>> \o SubSeq(buf, 4, 10)
         upto   == header \o ToBytes16(ccrc16(header))
                          \o SubSeq(buf, 13, Len(buf) - 4)
     IN  buf' = upto \o ToBytes32(ccrc32(upto))
  /\ phase' = "redeclared"
  /\ UNCHANGED <<cargs, tpos, decoded, cresult, statusVars, protoVars>>

\* a frame whose sender put only the first n bytes into the data section,
\* with the declared length and both checksums computed over what is sent
Shorten(n) ==
  /\ phase = "built" /\ ~decoded
  /\ n \in 0..1
  /\ LET vl     == ToBytes16(12 + n + 4)
         header == <<buf[1], vl[1], vl[2]>> \o SubSeq(buf, 4, 10)
         upto   == header \o ToBytes16(ccrc16(header))
                          \o SubSeq(buf, 13, 12 + n)
     IN  buf' = upto \o ToBytes32(ccrc32(upto))
  /\ phase' = "shortened"
  /\ UNCHANGED <<cargs, tpos, decoded, cresult, statusVars, protoVars>>

\* only the first n bytes of the frame arrive
Cut(n) ==
  /\ phase = "built" /\ ~decoded
  /\ n \in 0..(Len(buf) - 1)
  /\ buf' = SubSeq(buf, 1, n)
  /\ phase' = "cut"
  /\ UNCHANGED <<cargs, tpos, decoded, cresult, statusVars, protoVars>>

Decode ==
  /\ phase # "args"
  /\ ~decoded
  /\ cresult' = parse_dji_frame(buf)
  /\ decoded' = TRUE
  /\ UNCHANGED <<cargs, buf, phase, tpos, statusVars, protoVars>>

CodecNext ==
  \/ Encode
  \/ \E pos \in TamperPositions, mask \in TamperMasks : Tamper(pos, mask)
  \/ Resize
  \/ \E d \in {16, Len(buf) - 1, Len(buf) + 1} : Redeclare(d)
  \/ \E n \in 0..1 : Shorten(n)
  \/ \E n \in {0, 1, 15} : Cut(n)
  \/ Decode

\* the codec experiment is not running
CodecOff ==
  /\ cargs = [cmd_set |-> 0, cmd_id |-> 0, payload |-> << >>,
              is_response |-> FALSE, ack_type |-> 0]
  /\ buf = << >>
  /\ phase = "off"
  /\ tpos = 0
  /\ decoded = FALSE
  /\ cresult = NotDecoded

-----------------------------------------------------------------------------
(* SpecStatus: CameraStatus.parseFromData applied to status payloads in    *)
(* which one enumerated field takes every byte value.                      *)

\* the 0-based payload offsets of the enumerated fields
EnumOffsets == {0, 1, 2, 3, 4, 8, 28, 29, 30}

StatusInputs ==
  {[i \in 1..StatusLen |-> IF i = o + 1 THEN v ELSE 0] :
     o \in EnumOffsets, v \in 0..255}

StatusInit ==
  /\ sdata \in StatusInputs
  /\ sphase = "input"
  /\ sresult = NotDecoded

StatusOff ==
  /\ sdata = << >>
  /\ sphase = "off"
  /\ sresult = NotDecoded

ParseStatus ==
  /\ sphase = "input"
  /\ sresult' = parseFromData(sdata)
  /\ sphase' = "parsed"
  /\ UNCHANGED <<sdata, codecVars, protoVars>>

StatusNext == ParseStatus

-----------------------------------------------------------------------------
(* Class Osmo360: the link, the two events, the last frames, the           *)
(* subscriber registry, and one caller that uses the API serially.         *)

\* None, for a frame attribute, a camera status or a return value
None == [none |-> TRUE]

\* self.device_id before connect has assigned it (the attribute is absent)
NoDeviceId == <<-1, -1>>

CTR_DEVICE_ID == <<258, 772>>           \* 0x01020304 as <<high, low>>

\* _parse_mac_address(local_mac) for the default "01-02-03-04-05-06"
LocalMac == <<1, 2, 3, 4, 5, 6>>

\* struct.pack("<IB16sIBBH4s", CTR_DEVICE_ID, 6, mac + 10 zero bytes, 0, 0,
\*             is_first_pairing, verify_code, 4 zero bytes)
ConnectionRequestPayload(verify_code) ==
  ToBytes32(CTR_DEVICE_ID) \o <<6>> \o LocalMac \o ZeroBytes(10)
    \o ZeroBytes(4) \o <<0>> \o <<0>> \o ToBytes16(verify_code) \o ZeroBytes(4)

\* struct.pack("<IB4s", 0x12345678, 0x00, 4 zero bytes)
AckPayload == <<120, 86, 52, 18, 0, 0, 0, 0, 0>>

\* struct.pack("<BB4s", 0x02, 0x14, 4 zero bytes): start the status broadcast
StartPayload == <<2, 20, 0, 0, 0, 0>>

\* struct.pack("<BB4s", 0x00, 0x14, 4 zero bytes): stop the status broadcast
StopPayload == <<0, 20, 0, 0, 0, 0>>

-----------------------------------------------------------------------------
(* The camera's side: the buffers it may push through the notification     *)
(* characteristic.  The camera frames its messages as build_dji_frame does.*)

CameraDeviceId == <<11, 10, 0, 0>>      \* the device id bytes it reports

\* the camera's request for approval: verification mode at offset 26, the
\* verification result at offsets 27..28
ApprovalPayload(mode, result) ==
  [i \in 1..29 |-> IF i = 27 THEN mode
                   ELSE IF i = 28 THEN result % 256
                   ELSE IF i = 29 THEN result \div 256
                   ELSE 0]

\* a status broadcast: PANO_PHOTO, live view, 87 % battery
StatusPayload ==
  [i \in 1..StatusLen |-> IF i = 1 THEN 63
                          ELSE IF i = 2 THEN 1
                          ELSE IF i = 38 THEN 87
                          ELSE 0]

InAccept  == build_dji_frame(0, 25, CameraDeviceId \o <<0>>, TRUE, 0)
InReject  == build_dji_frame(0, 25, CameraDeviceId \o <<1>>, TRUE, 0)
InReply   == build_dji_frame(29, 5, <<0>>, TRUE, 0)
InApprove == build_dji_frame(0, 25, ApprovalPayload(2, 0), FALSE, 0)
InDeny    == build_dji_frame(0, 25, ApprovalPayload(2, 1), FALSE, 0)
InStatus  == build_dji_frame(29, 2, StatusPayload, FALSE, 0)
InCorrupt == [InReply EXCEPT ![15] = 1]
\* an approval request in a verification mode other than 2
InBadMode == build_dji_frame(0, 25, ApprovalPayload(1, 0), FALSE, 0)
\* an approval request one byte short of the 29 the handshake reads
InShortApproval ==
  build_dji_frame(0, 25, SubSeq(ApprovalPayload(2, 0), 1, 28), FALSE, 0)
\* a status broadcast one byte short of the 38 parseFromData reads
InShortStatus ==
  build_dji_frame(29, 2, SubSeq(StatusPayload, 1, StatusLen - 1), FALSE, 0)

Inbound ==
  <<InAccept, InReject, InReply, InApprove, InDeny, InStatus, InCorrupt,
    InBadMode, InShortApproval, InShortStatus>>

\* the buffers that reach the handler while the handshake and the command
\* channel are observed: all but the undecodable status broadcast
ChannelInbound == {i \in 1..Len(Inbound) : Inbound[i] # InShortStatus}

Idx(buffer) == CHOOSE i \in 1..Len(Inbound) : Inbound[i] = buffer

\* parse_dji_frame of each of them, computed once
InboundParsed == [i \in 1..Len(Inbound) |-> parse_dji_frame(Inbound[i])]

-----------------------------------------------------------------------------
(* _notification_handler: it has no await, so it runs as one step.         *)

\* a faulty variant: the loop stops after the first callback
CallbacksInvokedFirst(callbacks) ==
  IF callbacks = << >> THEN << >> ELSE <<Head(callbacks)>>

\* the callbacks "for cb in self.cameraStatusCallbacks: cb(...)" invokes
CallbacksInvoked(callbacks) == callbacks

\* a faulty variant: no frame taken for a response
IsResponseFrameNever(frame) == FALSE

\* a faulty variant: every frame taken for a response
IsResponseFrameAlways(frame) == TRUE

\* whether "if frame['frame_type'] == 1" takes the response branch
IsResponseFrame(frame) == frame.frame_type = 1

\* the caller is inside send_dji_command
InSend == pc \in {"send_write", "send_wait"}

Handle(i) ==
  /\ connected
  /\ LET parsed == InboundParsed[i] IN
     IF ~parsed.ok
     THEN \* ValueError, caught
          /\ invoked' = << >>
          /\ UNCHANGED <<last_response_frame, response_received,
                         last_notification_data, notification_received,
                         cameraStatus, g_fresh, g_gap>>
     ELSE IF IsResponseFrame(parsed.frame)
     THEN /\ last_response_frame' = parsed.frame
          /\ response_received' = TRUE
          /\ invoked' = << >>
          /\ g_fresh' = (g_fresh \/ InSend)
          /\ g_gap' = IF ~InSend /\ g_gap = "timeout" THEN "late" ELSE g_gap
          /\ UNCHANGED <<last_notification_data, notification_received,
                         cameraStatus>>
     ELSE /\ last_notification_data' = parsed.frame
          /\ notification_received' = TRUE
          /\ IF parsed.frame.cmd_set = 29 /\ parsed.frame.cmd_id = 2
             THEN LET st == parseFromData(parsed.frame.data) IN
                  /\ cameraStatus' = st
                  /\ invoked' = IF st.ok
                                THEN CallbacksInvoked(cameraStatusCallbacks)
                                ELSE << >>
             ELSE /\ invoked' = << >>
                  /\ UNCHANGED cameraStatus
          /\ UNCHANGED <<last_response_frame, response_received,
                         g_fresh, g_gap>>
  /\ UNCHANGED <<connected, cameraStatusCallbacks, device_id, op, pc, sargs,
                 cbarg, ret, written, g_stale, g_att, g_mark,
                 codecVars, statusVars>>

\* the transport delivers Inbound[i] to _notification_handler
NotificationHandler(i) == Handle(i) /\ UNCHANGED <<g_in, auxVars>>

\* the same, with the buffer recorded for the step
Dispatch(i) == Handle(i) /\ g_in' = i /\ UNCHANGED auxVars

-----------------------------------------------------------------------------
(* The caller.  Its code between two awaits runs as one step; it is        *)
(* suspended in the transport write ("send_write"), on response_received   *)
(* ("send_wait"), on notification_received ("approval_wait") or in the     *)
(* transport's disconnect ("disconnecting").                               *)

MaxWritten   == 3             \* no API call starts after this many writes
MaxCallbacks == 2             \* longest registry

Callbacks   == {"cbA", "cbB"}
VerifyCodes == {4660}         \* random.randint(0, 9999), sampled

ReturnValue(kind, frame, val) == [kind |-> kind, frame |-> frame, val |-> val]

ReturnsNone      == ReturnValue("None", None, NoDeviceId)
ReturnsFalse     == ReturnValue("False", None, NoDeviceId)
Raises           == ReturnValue("raise", None, NoDeviceId)
ReturnsFrame(f)  == IF f = None THEN ReturnsNone
                    ELSE ReturnValue("frame", f, NoDeviceId)
ReturnsDevice(d) == ReturnValue("device_id", None, d)
ReturnsTrue      == ReturnValue("True", None, NoDeviceId)

\* the commands the API methods send: cmd_set, cmd_id, payload, is_response
Commands ==
  <<<<0, 25, ConnectionRequestPayload(4660), FALSE>>,
    <<0, 25, AckPayload, TRUE>>,
    <<29, 4, ExamplePayload, FALSE>>,
    <<29, 5, StartPayload, FALSE>>,
    <<29, 5, StopPayload, FALSE>> >>

\* line 516, build_dji_frame of each of them, computed once
BuiltFrames ==
  [i \in 1..Len(Commands) |->
     build_dji_frame(Commands[i][1], Commands[i][2], Commands[i][3],
                     Commands[i][4], 1)]

\* line 516: frame = self.build_dji_frame(cmd_set, cmd_id, payload, ...)
BuiltFrame(cmd_set, cmd_id, payload, is_response) ==
  LET c == <<cmd_set, cmd_id, payload, is_response>>
  IN  IF \E i \in 1..Len(Commands) : Commands[i] = c
      THEN BuiltFrames[CHOOSE i \in 1..Len(Commands) : Commands[i] = c]
      ELSE build_dji_frame(cmd_set, cmd_id, payload, is_response, 1)

\* the arguments of send_dji_command, after lines 512-513
SendArgs(cmd_set, cmd_id, wait_for_response, is_response) ==
  [cmd_set |-> cmd_set, cmd_id |-> cmd_id,
   wait_for_response |-> IF is_response THEN FALSE ELSE wait_for_response,
   is_response |-> is_response]

\* a faulty variant: the last response frame is not reset
KeptFrame(frame) == frame

\* line 515: self.last_response_frame = None
ClearedFrame(frame) == None

\* a faulty variant: the frame is written a second time
TransmitTwice(out, frame) == Append(Append(out, frame), frame)

\* line 518: await self.client.write_gatt_char(self.WRITE_UUID, frame, ...)
Transmit(out, frame) == Append(out, frame)

\* send_dji_command, lines 509-518: up to the await of the transport write
\* (the caller has checked that the link is connected)
SendBegin(cmd_set, cmd_id, payload, wait_for_response, is_response) ==
  /\ sargs' = SendArgs(cmd_set, cmd_id, wait_for_response, is_response)
  /\ last_response_frame' = ClearedFrame(last_response_frame)
  /\ written' = Transmit(written,
                         BuiltFrame(cmd_set, cmd_id, payload, is_response))
  /\ pc' = "send_write"
  /\ g_fresh' = FALSE
  /\ g_stale' = (g_gap = "late")
  /\ g_gap' = "none"

\* an API call ends
Finish(value) ==
  /\ pc' = "idle"
  /\ ret' = value

\* send_dji_command, lines 509-510: the link is not connected
SendRefused(cmd_set, cmd_id, wait_for_response, is_response) ==
  /\ sargs' = SendArgs(cmd_set, cmd_id, wait_for_response, is_response)
  /\ Finish(Raises)
  /\ g_fresh' = FALSE
  /\ g_stale' = (g_gap = "late")
  /\ g_gap' = "none"
  /\ UNCHANGED <<last_response_frame, written>>

\* the approval the handshake waits for, lines 379-390
IsApprovalFrame(frame) ==
  frame.cmd_set = 0 /\ frame.cmd_id = 25 /\ frame.frame_type = 0

VerifyMode(frame) == frame.data[27]

\* a faulty variant: the verification result read one byte early
VerifyDataEarly(frame) == FromBytes16(Slice(frame.data, 26, 28))

VerifyData(frame) == FromBytes16(Slice(frame.data, 27, 29))

\* a faulty variant: every verdict taken for an approval
ApprovedAny(result) == TRUE

\* line 389: if cam_verify_data == 0
Approved(result) == result = 0

\* the response the handshake accepts, lines 351-361
ValidConnectionResponse(frame) ==
  /\ frame.cmd_set = 0 /\ frame.cmd_id = 25
  /\ frame.frame_type = 1
  /\ Len(frame.data) >= 5

\* setMode, startRecording, stopRecording and grabImage
ControlCommands == {"setMode", "startRecording", "stopRecording", "grabImage"}

\* the arguments each of them hands to send_dji_command for device id dev:
\* struct.pack("<IB4s", self.device_id, b, zeros), lines 449-468; setMode
\* is called with CameraMode.PANO_PHOTO (0x3F)
ControlArgs(command, dev) ==
  CASE command = "setMode" ->
         <<29, 4, ToBytes32(dev) \o <<63>> \o <<0, 0, 0, 0>> >>
    [] command = "startRecording" ->
         <<29, 3, ToBytes32(dev) \o <<0>> \o <<0, 0, 0, 0>> >>
    [] command = "stopRecording" ->
         <<29, 3, ToBytes32(dev) \o <<1>> \o <<0, 0, 0, 0>> >>
    [] command = "grabImage" ->
         <<29, 3, ToBytes32(dev) \o <<0>> \o <<0, 0, 0, 0>> >>

\* resp['data'] == 0x00: resp['data'] is a bytes object (line 646) and a
\* bytes object never compares equal to an int
BytesEqualsInt(data, n) == FALSE

\* lines 451, 457, 463, 469: resp is not None and resp['data'] == 0x00
ControlSuccess(resp) == resp # None /\ BytesEqualsInt(resp.data, 0)

\* what the caller does when send_dji_command returns r (a frame or None),
\* up to its next await or its return
AfterSend(r, timed_out) ==
  /\ g_gap' = IF timed_out THEN "timeout" ELSE "none"
  /\ CASE op = "send" ->
            /\ Finish(ReturnsFrame(r))
            /\ UNCHANGED <<cameraStatusCallbacks, device_id,
                           notification_received, g_att>>
       [] op = "subscribe" ->
            /\ cameraStatusCallbacks' = Append(cameraStatusCallbacks, cbarg)
            /\ Finish(ReturnsFrame(r))
            /\ UNCHANGED <<device_id, notification_received, g_att>>
       [] op = "unsubscribe" ->
            /\ Finish(ReturnsNone)
            /\ UNCHANGED <<cameraStatusCallbacks, device_id,
                           notification_received, g_att>>
       [] op \in ControlCommands ->
            /\ Finish(IF ControlSuccess(r) THEN ReturnsTrue ELSE ReturnsFalse)
            /\ UNCHANGED <<cameraStatusCallbacks, device_id,
                           notification_received, g_att>>
       [] op = "connect" /\ sargs.is_response ->
            \* the acknowledgment is out: line 394
            /\ Finish(ReturnsDevice(device_id))
            /\ UNCHANGED <<cameraStatusCallbacks, device_id,
                           notification_received, g_att>>
       [] op = "connect" /\ ~sargs.is_response ->
            \* lines 343-373
            /\ g_att' = [g_att EXCEPT !.resp = r]
            /\ UNCHANGED cameraStatusCallbacks
            /\ IF r = None
               THEN /\ Finish(ReturnsFalse)
                    /\ UNCHANGED <<device_id, notification_received>>
               ELSE IF ~ValidConnectionResponse(r)
               THEN /\ Finish(ReturnsFalse)
                    /\ UNCHANGED <<device_id, notification_received>>
               ELSE /\ device_id' = FromBytes32(Slice(r.data, 0, 4))
                    /\ IF r.data[5] # 0
                       THEN /\ Finish(ReturnsFalse)
                            /\ UNCHANGED notification_received
                       ELSE /\ notification_received' = FALSE
                            /\ pc' = "approval_wait"
                            /\ UNCHANGED ret

\* ---- the API calls, each up to its first await

\* connect(), lines 321-341 (with _connect_bt when the link is down)
CallConnect(verify_code) ==
  /\ pc = "idle"
  /\ g_in' = 0
  /\ g_mark' = Len(written)
  /\ UNCHANGED auxVars
  /\ Len(written) < MaxWritten
  /\ op' = "connect"
  /\ connected' = TRUE
  /\ g_att' = [mark |-> Len(written), dev |-> device_id,
               resp |-> None, seen |-> None]
  /\ SendBegin(0, 25, ConnectionRequestPayload(verify_code), TRUE, FALSE)
  /\ UNCHANGED <<notification_received, response_received,
                 last_notification_data, cameraStatus, invoked,
                 cameraStatusCallbacks, device_id, cbarg, ret,
                 codecVars, statusVars>>

\* send_dji_command called directly
CallSend(wait_for_response) ==
  /\ pc = "idle"
  /\ g_in' = 0
  /\ g_mark' = Len(written)
  /\ UNCHANGED auxVars
  /\ Len(written) < MaxWritten
  /\ op' = "send"
  /\ IF connected
     THEN /\ SendBegin(29, 4, ExamplePayload, wait_for_response, FALSE)
          /\ UNCHANGED ret
     ELSE SendRefused(29, 4, wait_for_response, FALSE)
  /\ UNCHANGED <<connected, notification_received, response_received,
                 last_notification_data, cameraStatus, invoked,
                 cameraStatusCallbacks, device_id, cbarg, g_att,
                 codecVars, statusVars>>

\* subscribeCameraStatus(callback), lines 480-481
CallSubscribe(callback) ==
  /\ pc = "idle"
  /\ g_in' = 0
  /\ g_mark' = Len(written)
  /\ UNCHANGED auxVars
  /\ Len(written) < MaxWritten
  /\ Len(cameraStatusCallbacks) < MaxCallbacks
  /\ op' = "subscribe"
  /\ cbarg' = callback
  /\ IF connected
     THEN /\ SendBegin(29, 5, StartPayload, TRUE, FALSE)
          /\ UNCHANGED ret
     ELSE SendRefused(29, 5, TRUE, FALSE)
  /\ UNCHANGED <<connected, notification_received, response_received,
                 last_notification_data, cameraStatus, invoked,
                 cameraStatusCallbacks, device_id, g_att,
                 codecVars, statusVars>>

\* list.remove(x): the first occurrence of x taken out
RECURSIVE Remove(_, _)
Remove(list, x) ==
  IF list = << >> THEN << >>
  ELSE IF Head(list) = x THEN Tail(list)
  ELSE <<Head(list)>> \o Remove(Tail(list), x)

Contains(list, x) == \E i \in 1..Len(list) : list[i] = x

\* whether unSubscribeCameraStatus sends the stop command, line 487
RegistryEmpty(callbacks) == Len(callbacks) = 0

\* unSubscribeCameraStatus(callback), lines 486-489
CallUnsubscribe(callback) ==
  /\ pc = "idle"
  /\ g_in' = 0
  /\ g_mark' = Len(written)
  /\ UNCHANGED auxVars
  /\ Len(written) < MaxWritten
  /\ op' = "unsubscribe"
  /\ cbarg' = callback
  /\ IF ~Contains(cameraStatusCallbacks, callback)
     THEN \* ValueError from list.remove
          /\ Finish(Raises)
          /\ UNCHANGED <<cameraStatusCallbacks, sargs, last_response_frame,
                         written, g_fresh, g_stale, g_gap>>
     ELSE /\ cameraStatusCallbacks' = Remove(cameraStatusCallbacks, callback)
          /\ IF ~RegistryEmpty(cameraStatusCallbacks')
             THEN /\ Finish(ReturnsNone)
                  /\ UNCHANGED <<sargs, last_response_frame, written,
                                 g_fresh, g_stale, g_gap>>
             ELSE IF connected
             THEN /\ SendBegin(29, 5, StopPayload, TRUE, FALSE)
                  /\ UNCHANGED ret
             ELSE SendRefused(29, 5, TRUE, FALSE)
  /\ UNCHANGED <<connected, notification_received, response_received,
                 last_notification_data, cameraStatus, invoked,
                 device_id, g_att, codecVars, statusVars>>

\* ---- the caller's resumptions

\* a faulty variant: the frame that came during the write is not looked at
ImmediateResponseNever(frame) == FALSE

\* line 520: if self.last_response_frame
ImmediateResponse(frame) == frame # None

\* the transport write is done: lines 520-525 and 532
SendWriteDone ==
  /\ pc = "send_write"
  /\ g_in' = 0
  /\ UNCHANGED g_mark
  /\ UNCHANGED auxVars
  /\ IF ImmediateResponse(last_response_frame)
     THEN /\ AfterSend(last_response_frame, FALSE)
          /\ UNCHANGED response_received
     ELSE IF sargs.wait_for_response
     THEN /\ response_received' = FALSE
          /\ pc' = "send_wait"
          /\ UNCHANGED <<ret, cameraStatusCallbacks, device_id,
                         notification_received, g_att, g_gap>>
     ELSE /\ AfterSend(None, FALSE)
          /\ UNCHANGED response_received
  /\ UNCHANGED <<connected, last_response_frame, last_notification_data,
                 cameraStatus, invoked, op, sargs, cbarg, written,
                 g_fresh, g_stale, codecVars, statusVars>>

\* the caller resumes from the wait of line 527 with r as the result of
\* send_dji_command
SendResume(r, timed_out) ==
  /\ pc = "send_wait"
  /\ g_in' = 0
  /\ UNCHANGED g_mark
  /\ AfterSend(r, timed_out)
  /\ UNCHANGED <<connected, response_received, last_response_frame,
                 last_notification_data, cameraStatus, invoked, op, sargs,
                 cbarg, written, g_fresh, g_stale, codecVars, statusVars>>

\* response_received is set while the caller waits on it: line 528
SendWake ==
  /\ response_received
  /\ SendResume(last_response_frame, FALSE)
  /\ UNCHANGED auxVars

\* the timeout of the wait elapses first: lines 529-531
SendTimeout ==
  /\ ~response_received
  /\ SendResume(None, TRUE)
  /\ UNCHANGED auxVars

\* whether the notification read after the approval wait is the camera's
\* verdict: lines 377-389
IsVerdict(frame) ==
  /\ frame # None
  /\ IsApprovalFrame(frame)
  /\ Len(frame.data) >= 29
  /\ VerifyMode(frame) = 2

\* notification_received is set while connect waits on it: lines 377-398
ApprovalWake ==
  /\ pc = "approval_wait"
  /\ g_in' = 0
  /\ UNCHANGED g_mark
  /\ UNCHANGED auxVars
  /\ notification_received
  /\ g_att' = [g_att EXCEPT !.seen = last_notification_data]
  /\ IF IsVerdict(last_notification_data)
     THEN IF Approved(VerifyData(last_notification_data))
          THEN IF connected
               THEN /\ SendBegin(0, 25, AckPayload, TRUE, TRUE)
                    /\ UNCHANGED ret
               ELSE \* "Bluetooth not connected", caught at line 403
                    /\ Finish(ReturnsFalse)
                    /\ UNCHANGED <<sargs, last_response_frame, written,
                                   g_fresh, g_stale, g_gap>>
          ELSE /\ pc' = "disconnecting"
               /\ UNCHANGED <<ret, sargs, last_response_frame, written,
                              g_fresh, g_stale, g_gap>>
     ELSE \* no branch returns: the function ends and returns None
          /\ Finish(ReturnsNone)
          /\ UNCHANGED <<sargs, last_response_frame, written,
                         g_fresh, g_stale, g_gap>>
  /\ UNCHANGED <<connected, notification_received, response_received,
                 last_notification_data, cameraStatus, invoked,
                 cameraStatusCallbacks, device_id, op, cbarg,
                 codecVars, statusVars>>

\* the approval wait times out: lines 399-401
ApprovalTimeout ==
  /\ pc = "approval_wait"
  /\ g_in' = 0
  /\ UNCHANGED g_mark
  /\ UNCHANGED auxVars
  /\ ~notification_received
  /\ Finish(ReturnsFalse)
  /\ UNCHANGED <<connected, notification_received, response_received,
                 last_response_frame, last_notification_data, cameraStatus,
                 invoked, cameraStatusCallbacks, device_id, op, sargs, cbarg,
                 written, g_fresh, g_gap, g_stale, g_att,
                 codecVars, statusVars>>

\* the transport has disconnected after a denial: lines 397-398
DisconnectDone ==
  /\ pc = "disconnecting"
  /\ g_in' = 0
  /\ UNCHANGED g_mark
  /\ UNCHANGED auxVars
  /\ connected' = FALSE
  /\ Finish(ReturnsFalse)
  /\ UNCHANGED <<notification_received, response_received,
                 last_response_frame, last_notification_data, cameraStatus,
                 invoked, cameraStatusCallbacks, device_id, op, sargs, cbarg,
                 written, g_fresh, g_gap, g_stale, g_att,
                 codecVars, statusVars>>

\* the state of a new Osmo360 object
ProtoInit ==
  /\ connected = FALSE
  /\ notification_received = FALSE
  /\ response_received = FALSE
  /\ last_response_frame = None
  /\ last_notification_data = None
  /\ cameraStatus = None
  /\ cameraStatusCallbacks = << >>
  /\ device_id = NoDeviceId
  /\ op = "none"
  /\ pc = "idle"
  /\ sargs = [cmd_set |-> 0, cmd_id |-> 0, wait_for_response |-> FALSE,
              is_response |-> FALSE]
  /\ cbarg = "cbA"
  /\ ret = ReturnsNone
  /\ written = << >>
  /\ invoked = << >>
  /\ g_fresh = FALSE
  /\ g_gap = "none"
  /\ g_stale = FALSE
  /\ g_att = [mark |-> 0, dev |-> NoDeviceId, resp |-> None, seen |-> None]
  /\ g_in = 0
  /\ g_mark = 0

\* the object once connect has returned the device id: the response to the
\* request came during the write, the approval during the wait, and the
\* acknowledgment is out; the observations start here
LinkedInit ==
  /\ connected = TRUE
  /\ notification_received = TRUE
  /\ response_received = TRUE
  /\ last_response_frame = None
  /\ last_notification_data = parse_dji_frame(InApprove).frame
  /\ cameraStatus = None
  /\ cameraStatusCallbacks = << >>
  /\ device_id = FromBytes32(CameraDeviceId)
  /\ op = "connect"
  /\ pc = "idle"
  /\ sargs = SendArgs(0, 25, TRUE, TRUE)
  /\ cbarg = "cbA"
  /\ ret = ReturnsDevice(FromBytes32(CameraDeviceId))
  /\ written = << >>
  /\ invoked = << >>
  /\ g_fresh = FALSE
  /\ g_gap = "none"
  /\ g_stale = FALSE
  /\ g_att = [mark |-> 0, dev |-> NoDeviceId, resp |-> None, seen |-> None]
  /\ g_in = 0
  /\ g_mark = 0

\* the linked object: inbound buffers, direct sends and the registry
DispatchNext ==
  \/ \E i \in 1..Len(Inbound) : Dispatch(i)
  \/ \E w \in BOOLEAN : CallSend(w)
  \/ \E cb \in Callbacks : CallSubscribe(cb)
  \/ \E cb \in Callbacks : CallUnsubscribe(cb)
  \/ SendWriteDone
  \/ SendWake
  \/ SendTimeout

ProtoNext ==
  \/ \E i \in ChannelInbound : NotificationHandler(i)
  \/ \E code \in VerifyCodes : CallConnect(code)
  \/ \E w \in BOOLEAN : CallSend(w)
  \/ \E cb \in Callbacks : CallSubscribe(cb)
  \/ \E cb \in Callbacks : CallUnsubscribe(cb)
  \/ SendWriteDone
  \/ SendWake
  \/ SendTimeout
  \/ ApprovalWake
  \/ ApprovalTimeout
  \/ DisconnectDone

-----------------------------------------------------------------------------
(* A camera that sends a fixed sequence of buffers, and a second caller    *)
(* whose send_dji_command overlaps the first caller's.  A wait on an       *)
(* asyncio.Event is woken by the set() that finds it waiting, whatever     *)
(* happens to the event before the waiter runs again.                      *)

\* the transport delivers the camera's next buffer to _notification_handler
Scripted ==
  /\ script # << >>
  /\ Handle(Head(script))
  /\ script' = Tail(script)
  /\ UNCHANGED <<g_in, pc2, wait2, ret2, scenario, g_conn>>

\* the callers suspended in "await ... response_received.wait()", line 527
Waiting ==
  (IF pc = "send_wait" THEN {1} ELSE {}) \cup
  (IF pc2 = "send_wait" THEN {2} ELSE {})

\* line 421: response_received.set() wakes every caller waiting on it
OverlapHandler ==
  /\ Scripted
  /\ LET parsed == InboundParsed[Head(script)] IN
     woke' = IF parsed.ok /\ IsResponseFrame(parsed.frame)
             THEN woke \cup Waiting
             ELSE woke

\* the first caller's wait was woken: line 528
OverlapWake ==
  /\ 1 \in woke
  /\ SendResume(last_response_frame, FALSE)
  /\ woke' = woke \ {1}
  /\ UNCHANGED <<pc2, wait2, ret2, script, scenario, g_conn>>

\* the first caller's wait timed out: lines 529-531
OverlapTimeout ==
  /\ 1 \notin woke
  /\ SendResume(None, TRUE)
  /\ UNCHANGED auxVars

\* what a step of the second caller leaves alone
SecondCallerFrame ==
  UNCHANGED <<connected, notification_received, last_notification_data,
              cameraStatus, cameraStatusCallbacks, device_id, op, pc, sargs,
              cbarg, ret, invoked, g_fresh, g_gap, g_stale, g_att, g_in,
              g_mark, script, scenario, g_conn, codecVars, statusVars>>

\* a second send_dji_command(0x1D, 0x04, ...) starts while the first one is
\* writing or waiting: lines 509-518
Call2Send(wait_for_response) ==
  /\ pc2 = "idle"
  /\ op = "send" /\ InSend
  /\ connected
  /\ Len(written) < MaxWritten
  /\ wait2' = wait_for_response
  /\ last_response_frame' = ClearedFrame(last_response_frame)
  /\ written' = Transmit(written, BuiltFrame(29, 4, ExamplePayload, FALSE))
  /\ pc2' = "send_write"
  /\ UNCHANGED <<response_received, ret2, woke>>
  /\ SecondCallerFrame

\* its transport write completes: lines 520-527
Send2WriteDone ==
  /\ pc2 = "send_write"
  /\ IF ImmediateResponse(last_response_frame)
     THEN /\ ret2' = ReturnsFrame(last_response_frame)
          /\ pc2' = "idle"
          /\ UNCHANGED response_received
     ELSE IF wait2
     THEN /\ response_received' = FALSE
          /\ pc2' = "send_wait"
          /\ UNCHANGED ret2
     ELSE /\ ret2' = ReturnsNone
          /\ pc2' = "idle"
          /\ UNCHANGED response_received
  /\ UNCHANGED <<last_response_frame, written, wait2, woke>>
  /\ SecondCallerFrame

\* its wait was woken: line 528
Send2Wake ==
  /\ pc2 = "send_wait"
  /\ 2 \in woke
  /\ ret2' = ReturnsFrame(last_response_frame)
  /\ pc2' = "idle"
  /\ woke' = woke \ {2}
  /\ UNCHANGED <<response_received, last_response_frame, written, wait2>>
  /\ SecondCallerFrame

\* its wait timed out: lines 529-531
Send2Timeout ==
  /\ pc2 = "send_wait"
  /\ 2 \notin woke
  /\ ret2' = ReturnsNone
  /\ pc2' = "idle"
  /\ UNCHANGED <<response_received, last_response_frame, written, wait2,
                 woke>>
  /\ SecondCallerFrame

\* the camera speaks while a call is in progress
SessionHandler ==
  /\ pc # "idle"
  /\ Scripted
  /\ UNCHANGED woke

\* setMode(CameraMode.PANO_PHOTO), startRecording(), stopRecording() or
\* grabImage(), up to the await of the transport write; reading
\* self.device_id raises AttributeError when connect never assigned it
CallControl(command) ==
  /\ pc = "idle"
  /\ command \in ControlCommands
  /\ g_in' = 0
  /\ g_mark' = Len(written)
  /\ Len(written) < MaxWritten
  /\ op' = command
  /\ g_conn' = IF op = "connect" THEN ret.kind ELSE g_conn
  /\ IF device_id = NoDeviceId
     THEN /\ Finish(Raises)
          /\ UNCHANGED <<sargs, last_response_frame, written, g_fresh,
                         g_stale, g_gap>>
     ELSE LET args == ControlArgs(command, device_id) IN
          IF connected
          THEN /\ SendBegin(args[1], args[2], args[3], TRUE, FALSE)
               /\ UNCHANGED ret
          ELSE SendRefused(args[1], args[2], TRUE, FALSE)
  /\ UNCHANGED <<connected, notification_received, response_received,
                 last_notification_data, cameraStatus, invoked,
                 cameraStatusCallbacks, device_id, cbarg, g_att,
                 pc2, wait2, ret2, woke, script, scenario,
                 codecVars, statusVars>>

\* the camera accepts the request, asks for approval and confirms, and
\* answers a command
PairScript == <<Idx(InAccept), Idx(InApprove), Idx(InReply)>>

\* the camera rejects the request (return code 1) and answers a command
RejectScript == <<Idx(InReject), Idx(InReply)>>

SessionScripts ==
  {PairScript,
   RejectScript,
   <<Idx(InAccept), Idx(InDeny)>>,
   <<Idx(InAccept), Idx(InReply)>>}

SessionAux ==
  /\ pc2 = "off"
  /\ wait2 = FALSE
  /\ ret2 = ReturnsNone
  /\ woke = {}
  /\ scenario \in SessionScripts
  /\ script = scenario
  /\ g_conn = "never"

\* a session as in __main__: connect() (directly, or through __aenter__,
\* which discards its result), then control commands
SessionNext ==
  \/ SessionHandler
  \/ \E code \in VerifyCodes : CallConnect(code)
  \/ \E command \in ControlCommands : CallControl(command)
  \/ SendWriteDone
  \/ SendWake
  \/ SendTimeout
  \/ ApprovalWake
  \/ ApprovalTimeout
  \/ DisconnectDone

\* what the camera sends to the two callers: Response frames, each once,
\* possibly after a status broadcast
OverlapScripts ==
  {<<Idx(InReply)>>,
   <<Idx(InReply), Idx(InAccept)>>,
   <<Idx(InStatus), Idx(InReply)>>}

OverlapAux ==
  /\ pc2 = "idle"
  /\ wait2 = FALSE
  /\ ret2 = ReturnsNone
  /\ woke = {}
  /\ scenario \in OverlapScripts
  /\ script = scenario
  /\ g_conn = "never"

OverlapNext ==
  \/ OverlapHandler
  \/ \E w \in BOOLEAN : CallSend(w)
  \/ SendWriteDone
  \/ OverlapWake
  \/ OverlapTimeout
  \/ \E w \in BOOLEAN : Call2Send(w)
  \/ Send2WriteDone
  \/ Send2Wake
  \/ Send2Timeout

-----------------------------------------------------------------------------
(* The specifications.                                                     *)

\* no second caller, no scripted camera
AuxOff ==
  /\ pc2 = "off"
  /\ wait2 = FALSE
  /\ ret2 = ReturnsNone
  /\ woke = {}
  /\ script = << >>
  /\ scenario = << >>
  /\ g_conn = "never"

InitCodec == CodecInit /\ StatusOff /\ ProtoInit /\ AuxOff

SpecCodec == InitCodec /\ [][CodecNext]_vars

InitStatus == StatusInit /\ CodecOff /\ ProtoInit /\ AuxOff

SpecStatus == InitStatus /\ [][StatusNext]_vars

Init == ProtoInit /\ CodecOff /\ StatusOff /\ AuxOff

Next == ProtoNext

Spec == Init /\ [][Next]_vars

InitDispatch == LinkedInit /\ CodecOff /\ StatusOff /\ AuxOff

SpecDispatch == InitDispatch /\ [][DispatchNext]_vars

\* the transport write returns, an elapsed timeout fires and a coroutine
\* whose event is set is resumed
InitOverlap == LinkedInit /\ CodecOff /\ StatusOff /\ OverlapAux

SpecOverlap == InitOverlap /\ [][OverlapNext]_vars

InitSession == ProtoInit /\ CodecOff /\ StatusOff /\ SessionAux

SpecSession == InitSession /\ [][SessionNext]_vars

FairSpec ==
  /\ Spec
  /\ WF_vars(SendWriteDone)
  /\ WF_vars(SendWake)
  /\ WF_vars(SendTimeout)
  /\ WF_vars(ApprovalWake)
  /\ WF_vars(ApprovalTimeout)
  /\ WF_vars(DisconnectDone)

-----------------------------------------------------------------------------
(* Claims about the codec.                                                 *)

FrameSize(payload) == 12 + 2 + Len(payload) + 4

\* C1: round trip -- whenever the frame fits the 10-bit length field,
\* parsing the built frame succeeds and gives back cmd_set, cmd_id and
\* payload, with frame_type = 1 exactly when is_response was set.
C1_RoundTrip ==
  (phase = "built" /\ decoded /\ FrameSize(cargs.payload) <= 1023) =>
    /\ cresult.ok
    /\ cresult.frame.cmd_set = cargs.cmd_set
    /\ cresult.frame.cmd_id = cargs.cmd_id
    /\ cresult.frame.data = cargs.payload
    /\ (cresult.frame.frame_type = 1) <=> cargs.is_response

C1_Witness ==
  /\ phase = "built" /\ decoded /\ cresult.ok
  /\ FrameSize(cargs.payload) = 1023
  /\ cresult.frame.data = cargs.payload

\* C2 as stated: a frame with one byte changed is rejected with a CRC16
\* or a CRC32 mismatch.
C2_Original ==
  (phase = "tampered" /\ decoded) =>
    /\ ~cresult.ok
    /\ cresult.error \in {ErrCRC16, ErrCRC32}

\* C2 amended: a frame with one byte changed is never decoded; it is
\* rejected for its SOF when byte 0 was changed, else for its length when
\* the declared length is not the buffer's, else with a CRC16 mismatch
\* (bytes 1..11) or a CRC32 mismatch (bytes 12 on).
C2_Tamper ==
  (phase = "tampered" /\ decoded) =>
    /\ ~cresult.ok
    /\ cresult.error =
         IF tpos = 1 THEN ErrSOF
         ELSE IF DeclaredLength(buf) # Len(buf) THEN ErrLength
         ELSE IF tpos <= 12 THEN ErrCRC16
         ELSE ErrCRC32

C2_Witness ==
  /\ phase = "tampered" /\ decoded /\ tpos > 12
  /\ ~cresult.ok /\ cresult.error = ErrCRC32

\* C7: a buffer is decoded only if its byte length is the length its
\* Ver/Length field declares.
C7_LengthInvariant ==
  (decoded /\ cresult.ok) => Len(buf) = DeclaredLength(buf)

C7_Witness ==
  /\ decoded /\ phase = "redeclared"
  /\ Len(buf) # DeclaredLength(buf)
  /\ cresult = Raise(ErrLength)

\* C8 as stated: every built frame is 12 + 2 + len(payload) + 4 bytes long,
\* starts with 0xAA and declares exactly its byte length.
C8_DeclaredLength ==
  (phase = "built") =>
    /\ Len(buf) = FrameSize(cargs.payload)
    /\ buf[1] = 170
    /\ DeclaredLength(buf) = Len(buf)

-----------------------------------------------------------------------------
(* Claims about the camera-status decoder.                                 *)

\* the member of cls whose value is the byte, UNKNOWN when there is none
IsVariantOf(cls, byte, name) ==
  \/ \E m \in cls : m[2] = byte /\ m[1] = name
  \/ (\A m \in cls : m[2] # byte) /\ name = "UNKNOWN"

\* C9: enum totality -- every enumerated status field decodes, for every
\* byte value, to the variant of that value, or to UNKNOWN when no variant
\* has it; decoding never fails.
C9_EnumTotality ==
  (sphase = "parsed") =>
    /\ sresult.ok
    /\ IsVariantOf(CameraMode, sdata[1], sresult.status.camera_mode)
    /\ IsVariantOf(ViewStatus, sdata[2], sresult.status.view_status)
    /\ IsVariantOf(VideoResolution, sdata[3], sresult.status.video_resolution)
    /\ IsVariantOf(FPSIdx, sdata[4], sresult.status.fps_idx)
    /\ IsVariantOf(EISMode, sdata[5], sresult.status.eis_mode)
    /\ IsVariantOf(PhotoRatio, sdata[9], sresult.status.photo_ratio)
    /\ IsVariantOf(UserMode, sdata[29], sresult.status.user_mode)
    /\ IsVariantOf(PowerMode, sdata[30], sresult.status.power_mode)
    /\ IsVariantOf(TempOver, sdata[31], sresult.status.temp_over)

C9_Witness ==
  /\ sphase = "parsed" /\ sresult.ok
  /\ sdata[30] = 2
  /\ sresult.status.power_mode = "UNKNOWN"
  /\ sresult.status.temp_over = "NORMAL"

-----------------------------------------------------------------------------
(* Claims about the command channel, the handshake and the registry.       *)

Done(o) == op = o /\ pc = "idle"

\* the frames written since the connect attempt began
AttemptWritten == SubSeq(written, g_att.mark + 1, Len(written))

\* a written frame, by its bytes: Response type on (0x00, 0x19)
IsAckBytes(f) == (f[4] \div 32) % 2 = 1 /\ f[13] = 0 /\ f[14] = 25

\* a written frame, by its bytes: Command type on (0x1D, 0x05) whose first
\* payload byte is b
IsBroadcastBytes(f, b) ==
  (f[4] \div 32) % 2 = 0 /\ f[13] = 29 /\ f[14] = 5 /\ f[15] = b

Count(seq, P(_)) == Cardinality({i \in 1..Len(seq) : P(seq[i])})

\* C3 as stated: a finished connect attempt has ended in Paired (it
\* returned the device id) or in Rejected or TimedOut (it returned False),
\* never in anything else.
C3_HandshakeOutcome ==
  Done("connect") => ret.kind \in {"device_id", "False"}

\* C4 as stated: a start-broadcast command is written only when the
\* registry is empty (going from zero to one callback), and a
\* stop-broadcast command only by the step that empties the registry.
C4_SubscriberLifecycle ==
  [][(Len(written') = Len(written) + 1) =>
       /\ IsBroadcastBytes(written'[Len(written')], 2)
            => Len(cameraStatusCallbacks) = 0
       /\ IsBroadcastBytes(written'[Len(written')], 0)
            => Len(cameraStatusCallbacks) = 1
               /\ Len(cameraStatusCallbacks') = 0]_vars

\* C5: send_dji_command with wait_for_response on a connected link ends;
\* it returns a Response frame exactly when one was delivered during the
\* call and None otherwise, raises nothing and leaves the link connected.
C5_SendTerminates ==
  /\ [](Done("send") /\ sargs.wait_for_response /\ connected =>
          /\ ret.kind = (IF g_fresh THEN "frame" ELSE "None")
          /\ ret.kind = "frame" => ret.frame.frame_type = 1)
  /\ [][(op = "send" /\ pc # "idle") => connected' = connected]_vars
  /\ (op = "send" /\ sargs.wait_for_response /\ pc # "idle") ~> Done("send")

C5_Witness ==
  /\ Done("send") /\ sargs.wait_for_response /\ connected
  /\ ~g_fresh /\ ret = ReturnsNone
  /\ ~response_received

\* C6: a send_dji_command call that follows a timed-out call, with a
\* Response delivered in between, returns a frame only if a Response was
\* delivered after it began; otherwise it returns None (a call on a link
\* that is not connected raises instead of returning).
C6_NoStaleResponse ==
  (op \in {"send", "subscribe"} /\ pc = "idle" /\ g_stale /\ ret # Raises) =>
    /\ ret.kind \in {"frame", "None"}
    /\ ret.kind = "frame" <=> g_fresh

C6_Witness ==
  /\ Done("send") /\ g_stale
  /\ sargs.wait_for_response
  /\ ret = ReturnsNone

\* the connect attempt got a Response with return code 0 and its approval
\* wait read a Command frame on (0x00, 0x19) of at least 29 payload bytes
\* with verification mode 2 and verification result 0
ApprovalPath ==
  /\ g_att.resp # None
  /\ g_att.resp.frame_type = 1
  /\ g_att.resp.cmd_set = 0 /\ g_att.resp.cmd_id = 25
  /\ Len(g_att.resp.data) >= 5
  /\ g_att.resp.data[5] = 0
  /\ g_att.seen # None
  /\ g_att.seen.frame_type = 0
  /\ g_att.seen.cmd_set = 0 /\ g_att.seen.cmd_id = 25
  /\ Len(g_att.seen.data) >= 29
  /\ g_att.seen.data[27] = 2
  /\ g_att.seen.data[28] = 0 /\ g_att.seen.data[29] = 0

\* C10: on the approval path connect writes exactly one acknowledgment
\* Response frame on (0x00, 0x19) and ends, after that write, in Paired with
\* the device id of the response; on any other path it writes none and
\* does not end in Paired.
C10_ApprovalPath ==
  (op = "connect") =>
    /\ Count(AttemptWritten, IsAckBytes) = (IF ApprovalPath THEN 1 ELSE 0)
    /\ (pc = "idle" /\ ApprovalPath) =>
         ret = ReturnsDevice(FromBytes32(Slice(g_att.resp.data, 0, 4)))
    /\ (pc = "idle" /\ ~ApprovalPath) => ret.kind # "device_id"
    /\ (pc # "idle" /\ ApprovalPath) => (sargs.is_response /\ InSend)

C10_Witness ==
  /\ Done("connect") /\ ApprovalPath
  /\ ret = ReturnsDevice(<<0, 2571>>)
  /\ Count(AttemptWritten, IsAckBytes) = 1

-----------------------------------------------------------------------------
(* Claims about the denial path, the approval wait and the immediate       *)
(* response.                                                               *)

\* the connect attempt got a Response on (0x00, 0x19) with return code 0
Accepted ==
  /\ g_att.resp # None
  /\ g_att.resp.frame_type = 1
  /\ g_att.resp.cmd_set = 0 /\ g_att.resp.cmd_id = 25
  /\ Len(g_att.resp.data) >= 5
  /\ g_att.resp.data[5] = 0

\* the approval wait read a Command frame on (0x00, 0x19) of at least 29
\* payload bytes in verification mode 2
ReadVerdict ==
  /\ g_att.seen # None
  /\ g_att.seen.frame_type = 0
  /\ g_att.seen.cmd_set = 0 /\ g_att.seen.cmd_id = 25
  /\ Len(g_att.seen.data) >= 29
  /\ g_att.seen.data[27] = 2

\* ... whose verification result is not 0
DenialPath ==
  /\ Accepted
  /\ ReadVerdict
  /\ (g_att.seen.data[28] # 0 \/ g_att.seen.data[29] # 0)

\* C11: when the approval notification carries verification mode 2 and a
\* non-zero verification result, connect writes no acknowledgment frame,
\* goes on to disconnect the transport and ends returning False with the
\* link down.
C11_DenialPath ==
  (op = "connect" /\ DenialPath) =>
    /\ Count(AttemptWritten, IsAckBytes) = 0
    /\ pc \in {"disconnecting", "idle"}
    /\ (pc = "disconnecting") => connected
    /\ (pc = "idle") => (ret = ReturnsFalse /\ ~connected)

C11_Witness ==
  /\ Done("connect") /\ DenialPath
  /\ ret = ReturnsFalse
  /\ ~connected
  /\ Len(AttemptWritten) = 1

\* C12 as stated: during the approval wait a Command notification that is
\* not a valid approval is ignored and the wait continues, so connect
\* leaves the wait only on a valid approval or on expiry (when it has read
\* no notification at all).
C12_WaitContinues ==
  (op = "connect" /\ Accepted /\ pc # "approval_wait" /\ g_att.seen # None)
    => ReadVerdict

\* C13: a Response delivered while send_dji_command is inside the transport
\* write is what the call returns when the write completes: the caller
\* does not suspend on response_received and the signal is not cleared,
\* whether or not wait_for_response is set.
C13_ImmediateResponse ==
  [][(pc = "send_write" /\ pc' # "send_write" /\ g_fresh) =>
       /\ pc' # "send_wait"
       /\ response_received' = response_received
       /\ (op \in {"send", "subscribe"}) =>
            (pc' = "idle" /\ ret' = ReturnsFrame(last_response_frame)
             /\ ret'.kind = "frame")
       /\ (op = "connect" /\ ~sargs.is_response) =>
            g_att'.resp = last_response_frame]_vars

C13_Witness ==
  /\ Done("send") /\ g_fresh
  /\ ~sargs.wait_for_response
  /\ ret = ReturnsFrame(last_response_frame)
  /\ ret.kind = "frame"

-----------------------------------------------------------------------------
(* Claims about the dispatch of inbound buffers.                           *)

\* the place of a buffer in Inbound

\* the frame type bit of a buffer, by its bytes
IsCommandBytes(buffer) == (buffer[4] \div 32) % 2 = 0

C15_MalformedDropped ==
  [][/\ (g_in' = Idx(InCorrupt)) =>
          /\ UNCHANGED <<last_response_frame, last_notification_data,
                         response_received, notification_received,
                         cameraStatus, cameraStatusCallbacks, connected,
                         pc, ret>>
          /\ invoked' = << >>
     /\ (g_in = Idx(InCorrupt) /\ g_in' = Idx(InReply)) =>
          /\ last_response_frame' # None
          /\ last_response_frame'.frame_type = 1
          /\ last_response_frame'.cmd_set = 29
          /\ last_response_frame'.cmd_id = 5
          /\ response_received'
     /\ (g_in = Idx(InCorrupt) /\ g_in' = Idx(InStatus)) =>
          /\ last_notification_data'.cmd_set = 29
          /\ last_notification_data'.cmd_id = 2
          /\ notification_received'
          /\ cameraStatus'.ok
          /\ invoked' = cameraStatusCallbacks]_vars

C15_Witness ==
  /\ g_in = Idx(InCorrupt)
  /\ last_response_frame # None
  /\ cameraStatus # None
  /\ cameraStatusCallbacks # << >>
  /\ invoked = << >>

\* C16: a status broadcast too short to decode invokes no callback and
\* leaves the link, the caller and the registry as they were; the
\* well-formed broadcast dispatched after it is decoded and handed to every
\* registered callback.
C16_UndecodableSwallowed ==
  [][/\ (g_in' = Idx(InShortStatus)) =>
          /\ invoked' = << >>
          /\ connected'
          /\ UNCHANGED <<cameraStatusCallbacks, pc, ret,
                         last_response_frame, response_received>>
     /\ (g_in = Idx(InShortStatus) /\ g_in' = Idx(InStatus)) =>
          /\ cameraStatus'.ok
          /\ cameraStatus'.status.camera_bat_percentage = 87
          /\ invoked' = cameraStatusCallbacks]_vars

C16_Witness ==
  /\ g_in = Idx(InShortStatus)
  /\ cameraStatusCallbacks = <<"cbA", "cbB">>
  /\ invoked = << >>
  /\ connected

\* C17: a Command frame never sets response_received or the last response
\* frame, so what send_dji_command returns is never a Command frame; a
\* Response frame never sets notification_received or the last
\* notification frame, never changes the stored status and invokes no
\* callback.
C17_TypeRouting ==
  /\ [](/\ (ret.kind = "frame") => ret.frame.frame_type = 1
        /\ (last_response_frame # None) => last_response_frame.frame_type = 1
        /\ (last_notification_data # None) =>
             last_notification_data.frame_type = 0)
  /\ [][(g_in' # 0) =>
          IF IsCommandBytes(Inbound[g_in'])
          THEN UNCHANGED <<response_received, last_response_frame>>
          ELSE /\ UNCHANGED <<notification_received, last_notification_data,
                              cameraStatus>>
               /\ invoked' = << >>]_vars

C17_Witness ==
  /\ pc = "send_wait"
  /\ g_in = Idx(InStatus)
  /\ ~response_received
  /\ last_response_frame = None
  /\ invoked # << >>

-----------------------------------------------------------------------------
(* Claims about correlation, the device id and retries.                    *)

\* C18 as stated: a frame returned by send_dji_command(cmd_set, cmd_id, ...)
\* is a Response frame carrying the same (cmd_set, cmd_id) as the command
\* sent.
C18_ResponseCorrelation ==
  (Done("send") /\ ret.kind = "frame") =>
    /\ ret.frame.frame_type = 1
    /\ ret.frame.cmd_set = sargs.cmd_set
    /\ ret.frame.cmd_id = sargs.cmd_id

\* C19 as stated: unless the response to the connection request is valid
\* and carries return code 0, device_id keeps the value it had before the
\* connect attempt.
C19_DeviceIdOnAccept ==
  (op = "connect" /\ ~Accepted) => device_id = g_att.dev

\* a written frame, by its bytes: Command type on (0x00, 0x19)
IsRequestBytes(f) == (f[4] \div 32) % 2 = 0 /\ f[13] = 0 /\ f[14] = 25

\* the frames written since the API call in progress began
CallWritten == Len(written) - g_mark

\* what C20 says of a connect attempt
ConnectWrites ==
  (op = "connect") =>
    /\ Count(AttemptWritten, IsRequestBytes) <= 1
    /\ Count(AttemptWritten, IsAckBytes) <= 1
    /\ Len(AttemptWritten) <= 2

-----------------------------------------------------------------------------
(* Claims about routing and the order of the decode checks.                *)

\* a camera-status broadcast: a Command frame on (0x1D, 0x02)
IsStatusFrame(frame) ==
  frame.frame_type = 0 /\ frame.cmd_set = 29 /\ frame.cmd_id = 2

\* C21 as stated: a frame is routed to exactly one of the response slot,
\* the handshake waiter and the telemetry subscribers; a step that stores a
\* decoded camera status (the telemetry route) leaves the handshake's
\* signal and its last notification frame alone, and the notification the
\* approval wait of connect reads is never a camera-status broadcast.
C21_ExclusiveRouting ==
  /\ [][(cameraStatus' # cameraStatus) =>
          UNCHANGED <<notification_received, last_notification_data>>]_vars
  /\ []((op = "connect" /\ g_att.seen # None) => ~IsStatusFrame(g_att.seen))

\* the first check of the decoder that a buffer fails, read off its bytes
FirstFailure(b) ==
  IF Len(b) < 16 THEN ErrTooShort
  ELSE IF b[1] # SOF THEN ErrSOF
  ELSE IF DeclaredLength(b) # Len(b) THEN ErrLength
  ELSE IF ccrc16(SubSeq(b, 1, 10)) # b[11] + 256 * b[12] THEN ErrCRC16
  ELSE IF ToBytes32(ccrc32(SubSeq(b, 1, Len(b) - 4)))
            # SubSeq(b, Len(b) - 3, Len(b)) THEN ErrCRC32
  ELSE IF Len(b) - 16 < 2 THEN ErrData
  ELSE "none"

FrameFields ==
  {"version", "length", "frame_type", "ack_type", "enc", "seq",
   "crc16", "crc32", "cmd_set", "cmd_id", "data"}

\* C22: the decoder reports the first failing check in the order too short,
\* bad SOF, length mismatch, CRC16 mismatch, CRC32 mismatch, data section
\* shorter than 2 bytes; it returns a frame only when all six pass, and the
\* frame it returns has every field populated from the buffer.
C22_CheckOrder ==
  decoded =>
    IF FirstFailure(buf) # "none"
    THEN cresult = Raise(FirstFailure(buf))
    ELSE /\ cresult.ok
         /\ DOMAIN cresult.frame = FrameFields
         /\ cresult.frame.length = Len(buf)
         /\ cresult.frame.cmd_set = buf[13]
         /\ cresult.frame.cmd_id = buf[14]
         /\ cresult.frame.data = SubSeq(buf, 15, Len(buf) - 4)

\* a 16-byte buffer with valid SOF, length and checksums was decoded and
\* rejected for its data section
C22_Witness ==
  /\ phase = "shortened" /\ decoded
  /\ Len(buf) = 16
  /\ FirstFailure(buf) = ErrData
  /\ cresult = Raise(ErrData)

-----------------------------------------------------------------------------
(* Claims about overlapping calls, the approval race and the control       *)
(* commands.                                                               *)

\* C23 as stated: with two overlapping send_dji_command calls, no Response
\* frame the camera delivered once is returned by both calls.
C23_NoSharedResponse ==
  ~(/\ op = "send" /\ pc = "idle" /\ pc2 = "idle"
    /\ ret.kind = "frame" /\ ret2.kind = "frame"
    /\ ret.frame = ret2.frame)

\* C24 as stated: when the camera answers the connection request with
\* return code 0 and then sends a valid approval (mode 2, result 0), and
\* these two frames, and no other, arrive while connect is in progress,
\* connect ends in Paired.
C24_ApprovalNotLost ==
  (/\ Done("connect") /\ g_att.mark = 0
   /\ scenario = PairScript /\ script = <<Idx(InReply)>>)
    => ret.kind = "device_id"

\* C25 as stated: a control command returns True exactly when a Response
\* with payload 0 arrived during the call, and False otherwise.
C25_ControlResult ==
  (op \in ControlCommands /\ pc = "idle" /\ ret # Raises) =>
    /\ ret \in {ReturnsTrue, ReturnsFalse}
    /\ ret = ReturnsTrue <=>
         /\ last_response_frame # None
         /\ last_response_frame.data = <<0>>

\* C26 as stated: a control command writes its frame only when the most
\* recent connect ended in Paired (returned the device id).
C26_GatedOnPairing ==
  (op \in ControlCommands /\ CallWritten > 0) => g_conn = "device_id"

====
